---- MODULE Spec2Model ----
(***************************************************************************)
(* Operation lifecycle and trade settlement of AssetLink Custody.          *)
(*                                                                         *)
(* Every request handler is an async function: it runs without             *)
(* interruption up to its next `await` on the database, the audit ledger   *)
(* or the custody provider, and other handlers run between two awaits.     *)
(* Each action below is one such uninterrupted piece, so that the          *)
(* interleavings of the model are those of the Node.js event loop.         *)
(***************************************************************************)
EXTENDS Integers, Sequences, FiniteSets, TLC

\* ------------------------------------------------------------------ bounds
MaxOps == 1           \* operations that can be created under Spec
MaxRaceOps == 2       \* operations that can be created under SpecRace
NumCalls == 2         \* service calls that can be in flight at once
MaxPendingPolls == 2  \* non-terminal poll answers per monitor under Spec
MaxConcPolls == 1     \* non-terminal poll answers per monitor under SpecConc
MaxListings == 2      \* listings that can be created under SpecMarket
MaxBids == 2          \* bids that can be placed under SpecMarket
MaxAmount == 2        \* largest bid amount, and the balance a buyer starts with
MaxBidListings == 1   \* listings that can be created under SpecBids
MaxDate == 2          \* the last instant the server clock reaches
MaxExpiryBids == 1    \* bids that can be placed under SpecExpiry
MaxMints == 1         \* token links the token mint service can issue

\* ------------------------------------------------------- program constants
maxAttempts == 30     \* monitorExecution: const maxAttempts = 30
retryAttempts == 3     \* withRetry: maxAttempts = 3

Records == {"A1"}
Makers == {"M"}
Actors == {"M", "C"}
OperationType == {"MINT", "TRANSFER", "BURN"}
Calls == 1..NumCalls
Assets == {"T1", "T2"}
Seller == "S"
Users == {"S", "B"}
BidAmounts == 1..MaxAmount
Dates == 1..MaxDate
NoRow == 0 - 1

NoTask == 0
NoOp == 0
NullHash == <<>>
PendingOnChain == <<"PENDING_ON_CHAIN">>
TxHashOf(taskId) == <<"0x_hash", taskId>>
ContractOf(taskId) == <<"0x_contract", taskId>>
NoToken == <<>>

VARIABLES
    ops,        \* operation store: sequence of operations, id = index
    custody,    \* custody record store: record id -> custody record
    audit,      \* audit ledger: sequence of entries, oldest first
    calls,      \* service calls in flight, one per slot
    last,       \* the call that returned in the last step, with its outcome
    mons,       \* execution monitors started so far, in start order
    tasks,      \* provider side: the operation each submitted task was for
    listings,   \* listing store: sequence of listings, id = index
    bids,       \* bid store: sequence of bids, id = index
    balances,   \* user balance rows: user -> balance, NoRow without a row
    ownership,  \* ownership ledger: asset -> owner -> quantity, 0 = no row
    now         \* the server clock, as new Date() reads it

mktVars == <<listings, bids, balances, ownership, now>>
opVars == <<ops, custody, mons, tasks>>
vars == <<ops, custody, audit, calls, last, mons, tasks,
          listings, bids, balances, ownership, now>>

\* ------------------------------------------------------------------ enums
\* enums/operationStatus.js
TerminalStatus == {"EXECUTED", "REJECTED", "FAILED"}
NonTerminalStatus == {"PENDING_CHECKER", "APPROVED"}

canTransitionTo(from, to) ==
    \/ from = "PENDING_CHECKER" /\ to \in {"APPROVED", "REJECTED"}
    \/ from = "APPROVED" /\ to \in {"EXECUTED", "FAILED"}

\* enums/custodyStatus.js
custodyCanTransitionTo(from, to) ==
    \/ from = "UNLINKED" /\ to = "LINKED"
    \/ from = "LINKED" /\ to = "MINTED"
    \/ from = "MINTED" /\ to \in {"WITHDRAWN", "BURNED"}

\* ------------------------------------------------------------ audit ledger
AuditEntry(eventType, operationId, custodyRecordId, txHash) ==
    [eventType |-> eventType, operationId |-> operationId,
     custodyRecordId |-> custodyRecordId, txHash |-> txHash]

\* a write of the ledger that replaces the newest row by the entry
createAuditLogOverLast(log, entry) ==
    IF log = <<>> THEN <<entry>> ELSE [log EXCEPT ![Len(log)] = entry]

\* auditRepository.createAuditLog: one row appended, nothing else touched
createAuditLog(log, entry) == Append(log, entry)

\* auditService.logEvent: the append either happens or throws
logEvent(ok, entry) ==
    audit' = IF ok THEN createAuditLog(audit, entry) ELSE audit

\* -------------------------------------------------------- operation store
NewOperation(type, rec, actor) ==
    [operationType |-> type, status |-> "PENDING_CHECKER",
     custodyRecordId |-> rec, initiatedBy |-> actor,
     approvedBy |-> "", rejectedBy |-> "", rejectionReason |-> "",
     fireblocksTaskId |-> NoTask, txHash |-> NullHash, failureReason |-> ""]

\* operationRepository.findPendingByCustodyRecord
findPendingByCustodyRecord(rec) ==
    {i \in 1..Len(ops) : ops[i].custodyRecordId = rec
                         /\ ops[i].status \in NonTerminalStatus}

\* operationRepository.updateStatus(id, status, fields): an unconditional
\* write of the status and of the given fields
updateStatus(id, status, fields) ==
    ops' = [ops EXCEPT ![id] =
              [f \in DOMAIN ops[id] |->
                 IF f = "status" THEN status
                 ELSE IF f \in DOMAIN fields THEN fields[f]
                 ELSE ops[id][f]]]

\* ------------------------------------------------------------------ calls
IdleCall ==
    [kind |-> "none", pc |-> "idle", actor |-> "", op |-> NoOp,
     rec |-> "", type |-> "", task |-> NoTask, error |-> "",
     listing |-> NoOp, bid |-> NoOp, amount |-> NoOp, buyerBalance |-> NoOp,
     date |-> NoOp, net |-> <<>>, tries |-> 0]

NoCall ==
    [kind |-> "none", actor |-> "", op |-> NoOp, rec |-> "",
     result |-> "", returned |-> "", caught |-> ""]

\* a request is served in the lowest slot that is not in use
Free(c) ==
    /\ calls[c].pc = "idle"
    /\ \A d \in 1..(c - 1) : calls[d].pc # "idle"

\* the call in slot c returns: the slot is released and the outcome kept
\* (`caught` is the error that executeOperation caught, if it caught one)
Return(c, kind, actor, id, rec, result, returned) ==
    /\ calls' = [calls EXCEPT ![c] = IdleCall]
    /\ last' = [kind |-> kind, actor |-> actor, op |-> id, rec |-> rec,
                result |-> result, returned |-> returned,
                caught |-> calls[c].error]

Done(c, result, returned) ==
    Return(c, calls[c].kind, calls[c].actor, calls[c].op, calls[c].rec,
           result, returned)

Goto(c, pc) ==
    /\ calls' = [calls EXCEPT ![c].pc = pc]
    /\ last' = NoCall

\* initiate calls that passed the pending check and have not created yet
Creating == {c \in Calls : calls[c].pc = "i_create"}

Init ==
    /\ ops = <<>>
    /\ custody = [r \in Records |->
                    [status |-> "LINKED", tokenId |-> NoToken,
                     tokenAddress |-> NoToken, blockchain |-> NoToken]]
    /\ audit = <<>>
    /\ calls = [c \in Calls |-> IdleCall]
    /\ last = NoCall
    /\ mons = <<>>
    /\ tasks = <<>>
    /\ listings = <<>>
    /\ bids = <<>>
    /\ balances = [u \in Users |-> IF u = Seller THEN NoRow ELSE MaxAmount]
    /\ ownership = [a \in Assets |->
                      [u \in Users |-> IF u = Seller THEN 1 ELSE 0]]
    /\ now = 1

\* ------------------------------------------------------- initiateOperation
\* lines 21-31: the record is looked up, then the pending operations of the
\* record are read and the call fails if there is one
InitiateCheck(c, rec, type, actor, limit) ==
    /\ Free(c)
    /\ Len(ops) + Cardinality(Creating) < limit
    /\ IF findPendingByCustodyRecord(rec) # {}
         THEN Return(c, "initiate", actor, NoOp, rec, "BadRequest", "")
         ELSE /\ calls' = [calls EXCEPT ![c] =
                   [IdleCall EXCEPT !.kind = "initiate", !.pc = "i_create",
                                    !.actor = actor, !.rec = rec,
                                    !.type = type]]
              /\ last' = NoCall
    /\ UNCHANGED <<ops, custody, audit, mons, tasks, mktVars>>

\* lines 33-40: createOperation
InitiateCreate(c) ==
    /\ calls[c].pc = "i_create"
    /\ ops' = Append(ops, NewOperation(calls[c].type, calls[c].rec,
                                       calls[c].actor))
    /\ calls' = [calls EXCEPT ![c].pc = "i_audit", ![c].op = Len(ops) + 1]
    /\ last' = NoCall
    /\ UNCHANGED <<custody, audit, mons, tasks, mktVars>>

\* lines 42-56: OPERATION_CREATED is logged and the operation returned
InitiateAudit(c, ok) ==
    /\ calls[c].pc = "i_audit"
    /\ logEvent(ok, AuditEntry("OPERATION_CREATED", calls[c].op,
                               ops[calls[c].op].custodyRecordId, NullHash))
    /\ IF ok THEN Done(c, "ok", "PENDING_CHECKER")
             ELSE Done(c, "AuditError", "")
    /\ UNCHANGED <<ops, custody, mons, tasks, mktVars>>

\* --------------------------------------------------------- approveOperation
\* approveOperation with the state transition checked before the segregation
ApproveCheckStatusFirst(c, id, actor) ==
    /\ Free(c)
    /\ id \in 1..Len(ops)
    /\ IF ~canTransitionTo(ops[id].status, "APPROVED")
         THEN Return(c, "approve", actor, id, "", "BadRequest", "")
         ELSE IF ops[id].initiatedBy = actor
         THEN Return(c, "approve", actor, id, "", "Forbidden", "")
         ELSE /\ calls' = [calls EXCEPT ![c] =
                   [IdleCall EXCEPT !.kind = "approve", !.pc = "a_update",
                                    !.actor = actor, !.op = id]]
              /\ last' = NoCall
    /\ UNCHANGED <<ops, custody, audit, mons, tasks, mktVars>>

\* lines 62-76: the operation is read, then the maker-checker segregation
\* and the state transition are checked on what was read
ApproveCheck(c, id, actor) ==
    /\ Free(c)
    /\ id \in 1..Len(ops)
    /\ IF ops[id].initiatedBy = actor
         THEN Return(c, "approve", actor, id, "", "Forbidden", "")
         ELSE IF ~canTransitionTo(ops[id].status, "APPROVED")
         THEN Return(c, "approve", actor, id, "", "BadRequest", "")
         ELSE /\ calls' = [calls EXCEPT ![c] =
                   [IdleCall EXCEPT !.kind = "approve", !.pc = "a_update",
                                    !.actor = actor, !.op = id]]
              /\ last' = NoCall
    /\ UNCHANGED <<ops, custody, audit, mons, tasks, mktVars>>

\* lines 78-81: status APPROVED and the approver are written
ApproveUpdate(c) ==
    /\ calls[c].pc = "a_update"
    /\ updateStatus(calls[c].op, "APPROVED", [approvedBy |-> calls[c].actor])
    /\ Goto(c, "a_audit")
    /\ UNCHANGED <<custody, audit, mons, tasks, mktVars>>

\* lines 83-97: OPERATION_APPROVED is logged, then executeOperation is entered
ApproveAudit(c, ok) ==
    /\ calls[c].pc = "a_audit"
    /\ logEvent(ok, AuditEntry("OPERATION_APPROVED", calls[c].op,
                               ops[calls[c].op].custodyRecordId, NullHash))
    /\ IF ok THEN Goto(c, "e_submit")
             ELSE Done(c, "AuditError", "")
    /\ UNCHANGED <<ops, custody, mons, tasks, mktVars>>

\* ---------------------------------------------------------- rejectOperation
\* rejectOperation without the state transition check
RejectCheckAnyStatus(c, id, actor) ==
    /\ Free(c)
    /\ id \in 1..Len(ops)
    /\ calls' = [calls EXCEPT ![c] =
          [IdleCall EXCEPT !.kind = "reject", !.pc = "r_update",
                           !.actor = actor, !.op = id]]
    /\ last' = NoCall
    /\ UNCHANGED <<ops, custody, audit, mons, tasks, mktVars>>

\* lines 103-111
RejectCheck(c, id, actor) ==
    /\ Free(c)
    /\ id \in 1..Len(ops)
    /\ IF ~canTransitionTo(ops[id].status, "REJECTED")
         THEN Return(c, "reject", actor, id, "", "BadRequest", "")
         ELSE /\ calls' = [calls EXCEPT ![c] =
                   [IdleCall EXCEPT !.kind = "reject", !.pc = "r_update",
                                    !.actor = actor, !.op = id]]
              /\ last' = NoCall
    /\ UNCHANGED <<ops, custody, audit, mons, tasks, mktVars>>

\* lines 113-116
RejectUpdate(c) ==
    /\ calls[c].pc = "r_update"
    /\ updateStatus(calls[c].op, "REJECTED",
                    [rejectedBy |-> calls[c].actor,
                     rejectionReason |-> "reason"])
    /\ Goto(c, "r_audit")
    /\ UNCHANGED <<custody, audit, mons, tasks, mktVars>>

\* lines 118-132
RejectAudit(c, ok) ==
    /\ calls[c].pc = "r_audit"
    /\ logEvent(ok, AuditEntry("OPERATION_REJECTED", calls[c].op,
                               ops[calls[c].op].custodyRecordId, NullHash))
    /\ IF ok THEN Done(c, "ok", "REJECTED")
             ELSE Done(c, "AuditError", "")
    /\ UNCHANGED <<ops, custody, mons, tasks, mktVars>>

\* --------------------------------------------------------- executeOperation
\* monitorExecution, lines 221-226 and 292: a monitor is created with zero
\* attempts and its first poll is scheduled
NewMonitor(id, taskId, type) ==
    [op |-> id, taskId |-> taskId, type |-> type, attempts |-> 0,
     pc |-> "timer", status |-> "", outcome |-> "", rec |-> ""]

\* what the network does to the successive requests of one provider call:
\* the request goes through, times out, or is refused by the provider
AllOk == <<"ok", "ok", "ok">>
Refused == <<"UNAUTHORIZED", "ok", "ok">>
OneTimeout == <<"ETIMEDOUT", "ok", "ok">>
AllTimeout == <<"ETIMEDOUT", "ETIMEDOUT", "ETIMEDOUT">>

\* fireblocks.client.js, withRetry, lines 32-37: the errors that are retried
isRetryable(error) == error \in {"ETIMEDOUT", "ECONNRESET"}

\* fireblocks.client.js, withRetry, lines 23-56, from the given attempt on:
\* the result of the attempt that succeeds, or the error of the attempt that
\* is not retryable or is the last, with the delays waited in between
RECURSIVE RetryFrom(_, _, _)
RetryFrom(net, attempt, waited) ==
    IF net[attempt] = "ok"
      THEN [result |-> "ok", tries |-> attempt, waited |-> waited]
    ELSE IF ~isRetryable(net[attempt]) \/ attempt = retryAttempts
      THEN [result |-> net[attempt], tries |-> attempt, waited |-> waited]
      ELSE RetryFrom(net, attempt + 1,
                     Append(waited, (2 ^ (attempt - 1)) * 1000))

withRetry(net) == RetryFrom(net, 1, <<>>)

\* vault/fireblocks.service.js, issueToken (lines 234-247) and transferTokens
\* (lines 277-287): one request, whose error is logged and thrown again
providerRequest(net) == [result |-> net[1], tries |-> 1, waited |-> <<>>]

\* lines 140-165: the operation is read again and the provider is called for
\* a MINT (issueToken) or a TRANSFER (transferTokens); no branch calls the
\* provider for a BURN, whose task id stays null
ExecuteSubmit(c, net) ==
    /\ calls[c].pc = "e_submit"
    /\ LET type == ops[calls[c].op].operationType
           answer == providerRequest(net) IN
       IF type \in {"MINT", "TRANSFER"}
         THEN IF answer.result = "ok"
                THEN /\ tasks' = Append(tasks, calls[c].op)
                     /\ calls' = [calls EXCEPT ![c].pc = "e_update",
                                               ![c].task = Len(tasks) + 1,
                                               ![c].net = net,
                                               ![c].tries = answer.tries]
                ELSE /\ tasks' = tasks
                     /\ calls' = [calls EXCEPT ![c].pc = "x_audit",
                                               ![c].error = "ProviderError",
                                               ![c].net = net,
                                               ![c].tries = answer.tries]
         ELSE /\ tasks' = tasks
              /\ calls' = [calls EXCEPT ![c].pc = "e_update",
                                        ![c].task = NoTask]
    /\ last' = NoCall
    /\ UNCHANGED <<ops, custody, audit, mons, mktVars>>

\* lines 193-199: status EXECUTED and the task id are written and the
\* monitor is started
ExecuteUpdate(c) ==
    /\ calls[c].pc = "e_update"
    /\ updateStatus(calls[c].op, "EXECUTED",
                    [fireblocksTaskId |-> calls[c].task])
    /\ mons' = Append(mons, NewMonitor(calls[c].op, calls[c].task,
                                       ops[calls[c].op].operationType))
    /\ Goto(c, "e_audit")
    /\ UNCHANGED <<custody, audit, tasks, mktVars>>

\* lines 201-206: OPERATION_EXECUTED is logged with 'PENDING_ON_CHAIN' and the
\* operation as it was written at line 193 is returned
ExecuteAudit(c, ok) ==
    /\ calls[c].pc = "e_audit"
    /\ logEvent(ok, AuditEntry("OPERATION_EXECUTED", calls[c].op, "",
                               PendingOnChain))
    /\ IF ok THEN Done(c, "ok", "EXECUTED")
             ELSE /\ calls' = [calls EXCEPT ![c].pc = "x_audit",
                                           ![c].error = "AuditError"]
                  /\ last' = NoCall
    /\ UNCHANGED <<ops, custody, mons, tasks, mktVars>>

\* lines 207-210 (catch): OPERATION_FAILED is logged first
ExecuteCatchAudit(c, ok) ==
    /\ calls[c].pc = "x_audit"
    /\ logEvent(ok, AuditEntry("OPERATION_FAILED", calls[c].op, "", NullHash))
    /\ IF ok THEN Goto(c, "x_update")
             ELSE Done(c, "AuditError", "")
    /\ UNCHANGED <<ops, custody, mons, tasks, mktVars>>

\* lines 211-214 (catch): status FAILED and the reason are written and the
\* error is thrown again
ExecuteCatchUpdate(c) ==
    /\ calls[c].pc = "x_update"
    /\ updateStatus(calls[c].op, "FAILED",
                    [failureReason |-> calls[c].error])
    /\ Done(c, calls[c].error, "")
    /\ UNCHANGED <<custody, audit, mons, tasks, mktVars>>

\* --------------------------------------------------------- monitorExecution
\* fireblocksService.monitorStatus: the statuses a task can be reported in
ProviderStatus == {"PENDING", "COMPLETED", "FAILED", "REJECTED", "CANCELLED"}
ProviderFailed == {"FAILED", "REJECTED", "CANCELLED"}
PollAnswers == ProviderStatus \cup {"THROWS"}

\* lines 237-239: the polls at which a progress entry is logged
Milestone(attempts) ==
    CASE attempts = 2 -> "ON_CHAIN_SUBMISSION"
      [] attempts = 5 -> "BLOCK_PROPAGATION"
      [] attempts = 10 -> "FINALIZING_SETTLEMENT"
      [] OTHER -> ""

FailureMsg(status) ==
    CASE status = "FAILED" -> "Fireblocks status: FAILED"
      [] status = "REJECTED" -> "Fireblocks status: REJECTED"
      [] status = "CANCELLED" -> "Fireblocks status: CANCELLED"

SetMon(m, pc, outcome) ==
    mons' = [mons EXCEPT ![m].pc = pc, ![m].outcome = outcome]

\* lines 228-289, one run of poll up to its first database access: the
\* provider is asked for the status, a progress entry is logged at a
\* milestone, and the answer decides what follows.  An exception anywhere in
\* poll is caught at line 287, logged, and nothing is scheduled again.
Poll(m, answer, ok) ==
    /\ m \in 1..Len(mons)
    /\ mons[m].pc = "timer"
    /\ LET mon == mons[m]
           logged == answer # "THROWS" /\ Milestone(mon.attempts) # "" IN
       /\ ok \/ logged
       /\ logEvent(ok /\ logged,
                   AuditEntry(Milestone(mon.attempts), mon.op, "", NullHash))
       /\ IF answer = "THROWS" \/ (logged /\ ~ok)
            THEN SetMon(m, "stopped", "error")
          ELSE IF answer = "COMPLETED"
            THEN mons' = [mons EXCEPT
                   ![m].pc = IF mon.type \in {"MINT", "BURN"}
                               THEN "c_find" ELSE "c_op",
                   ![m].status = answer]
          ELSE IF answer \in ProviderFailed
            THEN mons' = [mons EXCEPT ![m].pc = "f_audit",
                                      ![m].status = answer]
          ELSE IF mon.attempts < maxAttempts
            THEN mons' = [mons EXCEPT ![m].attempts = mon.attempts + 1]
          ELSE SetMon(m, "stopped", "timeout")
    /\ last' = NoCall
    /\ UNCHANGED <<ops, custody, calls, tasks, mktVars>>

\* custodyService.updateCustodyStatus, lines 77-84: the record is read and
\* the transition validated; an invalid one throws into the catch of poll
MonitorCustodyFind(m) ==
    /\ m \in 1..Len(mons)
    /\ mons[m].pc = "c_find"
    /\ LET rec == ops[mons[m].op].custodyRecordId
           to == IF mons[m].type = "MINT" THEN "MINTED" ELSE "BURNED" IN
       IF custodyCanTransitionTo(custody[rec].status, to)
         THEN SetMon(m, "c_write", "")
         ELSE SetMon(m, "stopped", "error")
    /\ last' = NoCall
    /\ UNCHANGED <<ops, custody, audit, calls, tasks, mktVars>>

\* custodyRepository.updateStatus, lines 176-198, with the metadata of lines
\* 251-255 (MINTED) or 262 (BURNED)
custodyUpdateStatus(rec, newStatus, metadata) ==
    custody' = [custody EXCEPT ![rec] =
       [f \in DOMAIN custody[rec] |->
          IF f = "status" THEN newStatus
          ELSE IF newStatus = "MINTED" /\ f \in DOMAIN metadata
                  /\ metadata[f] # NoToken
            THEN metadata[f]
          ELSE custody[rec][f]]]

MonitorCustodyWrite(m) ==
    /\ m \in 1..Len(mons)
    /\ mons[m].pc = "c_write"
    /\ LET rec == ops[mons[m].op].custodyRecordId IN
       IF mons[m].type = "MINT"
         THEN custodyUpdateStatus(rec, "MINTED",
                 [blockchain |-> <<"ETH_TEST5">>,
                  tokenId |-> ContractOf(mons[m].taskId),
                  txHash |-> TxHashOf(mons[m].taskId)])
         ELSE custodyUpdateStatus(rec, "BURNED",
                 [txHash |-> TxHashOf(mons[m].taskId)])
    /\ SetMon(m, "c_audit", "")
    /\ last' = NoCall
    /\ UNCHANGED <<ops, audit, calls, tasks, mktVars>>

\* custodyService.updateCustodyStatus, lines 89-98: TOKEN_MINTED or
\* TOKEN_BURNED is logged for the record
MonitorCustodyAudit(m, ok) ==
    /\ m \in 1..Len(mons)
    /\ mons[m].pc = "c_audit"
    /\ logEvent(ok, AuditEntry(IF mons[m].type = "MINT" THEN "TOKEN_MINTED"
                                                       ELSE "TOKEN_BURNED",
                               NoOp, ops[mons[m].op].custodyRecordId,
                               TxHashOf(mons[m].taskId)))
    /\ IF ok THEN SetMon(m, "c_op", "")
             ELSE SetMon(m, "stopped", "error")
    /\ last' = NoCall
    /\ UNCHANGED <<ops, custody, calls, tasks, mktVars>>

\* line 267: status EXECUTED and the transaction hash are written
MonitorComplete(m) ==
    /\ m \in 1..Len(mons)
    /\ mons[m].pc = "c_op"
    /\ updateStatus(mons[m].op, "EXECUTED",
                    [txHash |-> TxHashOf(mons[m].taskId)])
    /\ SetMon(m, "stopped", "completed")
    /\ last' = NoCall
    /\ UNCHANGED <<custody, audit, calls, tasks, mktVars>>

\* lines 271-274: OPERATION_FAILED is logged
MonitorFailAudit(m, ok) ==
    /\ m \in 1..Len(mons)
    /\ mons[m].pc = "f_audit"
    /\ logEvent(ok, AuditEntry("OPERATION_FAILED", mons[m].op, "", NullHash))
    /\ IF ok THEN SetMon(m, "f_op", "")
             ELSE SetMon(m, "stopped", "error")
    /\ last' = NoCall
    /\ UNCHANGED <<ops, custody, calls, tasks, mktVars>>

\* lines 275-278: status FAILED and the reported reason are written
MonitorFail(m) ==
    /\ m \in 1..Len(mons)
    /\ mons[m].pc = "f_op"
    /\ updateStatus(mons[m].op, "FAILED",
                    [failureReason |-> FailureMsg(mons[m].status)])
    /\ SetMon(m, "stopped", "failed")
    /\ last' = NoCall
    /\ UNCHANGED <<custody, audit, calls, tasks, mktVars>>

\* the answers the provider gives to a poll when it reports a task
\* non-terminal at most `pending` times
Answers(m, pending) ==
    IF mons[m].attempts < pending THEN PollAnswers
    ELSE PollAnswers \ {"PENDING"}

\* ------------------------------------------------------ token mint service
\* monitorMintingStatus, lines 248-254 and 355-357: a monitor of a token link
\* and a custody record, with no operation
NewMintMonitor(taskId, rec) ==
    [op |-> NoOp, taskId |-> taskId, type |-> "MINT", attempts |-> 0,
     pc |-> "d_timer", status |-> "", outcome |-> "", rec |-> rec]

\* mintToken, lines 32-76: the custody record of the asset is read and must
\* be LINKED
MintTokenCheck(c, rec, actor) ==
    /\ Free(c)
    /\ IF custody[rec].status # "LINKED"
         THEN Return(c, "mintToken", actor, NoOp, rec, "BadRequest", "")
         ELSE /\ calls' = [calls EXCEPT ![c] =
                   [IdleCall EXCEPT !.kind = "mintToken", !.pc = "mt_issue",
                                    !.actor = actor, !.rec = rec]]
              /\ last' = NoCall
    /\ UNCHANGED <<ops, custody, audit, mons, tasks, mktVars>>

\* mintToken, lines 87-97: the token is issued through fireblocks.client.js,
\* whose issueToken wraps the request in withRetry
MintTokenIssue(c, net) ==
    /\ calls[c].pc = "mt_issue"
    /\ LET answer == withRetry(net) IN
       IF answer.result = "ok"
         THEN /\ tasks' = Append(tasks, NoOp)
              /\ calls' = [calls EXCEPT ![c].pc = "mt_audit",
                                        ![c].task = Len(tasks) + 1,
                                        ![c].net = net,
                                        ![c].tries = answer.tries]
         ELSE /\ tasks' = tasks
              /\ calls' = [calls EXCEPT ![c].pc = "mt_catch",
                                        ![c].error = "ProviderError",
                                        ![c].net = net,
                                        ![c].tries = answer.tries]
    /\ last' = NoCall
    /\ UNCHANGED <<ops, custody, audit, mons, mktVars>>

\* mintToken, lines 99-121: TOKEN_MINT_INITIATED is logged, the monitor is
\* started and the token link returned
MintTokenAudit(c, ok) ==
    /\ calls[c].pc = "mt_audit"
    /\ logEvent(ok, AuditEntry("TOKEN_MINT_INITIATED", NoOp, "", NullHash))
    /\ IF ok
         THEN /\ mons' = Append(mons, NewMintMonitor(calls[c].task,
                                                     calls[c].rec))
              /\ Done(c, "ok", "PENDING_APPROVAL")
         ELSE /\ mons' = mons
              /\ calls' = [calls EXCEPT ![c].pc = "mt_catch",
                                        ![c].error = "AuditError"]
              /\ last' = NoCall
    /\ UNCHANGED <<ops, custody, tasks, mktVars>>

\* mintToken, lines 122-146 (catch): TOKEN_MINT_FAILED is logged and the
\* error thrown again
MintTokenCatch(c, ok) ==
    /\ calls[c].pc = "mt_catch"
    /\ logEvent(ok, AuditEntry("TOKEN_MINT_FAILED", NoOp, "", NullHash))
    /\ IF ok THEN Done(c, calls[c].error, "")
             ELSE Done(c, "AuditError", "")
    /\ UNCHANGED <<ops, custody, mons, tasks, mktVars>>

\* monitorMintingStatus, lines 255-353, one run of poll up to its first
\* write: the status of the token link is read, a progress entry is logged
\* for the custody record at a milestone, and the answer decides what
\* follows.  An exception is caught at line 346 and ends the monitor.
MintPoll(m, answer, ok) ==
    /\ m \in 1..Len(mons)
    /\ mons[m].pc = "d_timer"
    /\ LET mon == mons[m]
           logged == answer # "THROWS" /\ Milestone(mon.attempts) # "" IN
       /\ ok \/ logged
       /\ logEvent(ok /\ logged,
                   AuditEntry(Milestone(mon.attempts), NoOp, mon.rec,
                              NullHash))
       /\ IF answer = "THROWS" \/ (logged /\ ~ok)
            THEN SetMon(m, "stopped", "error")
          ELSE IF answer = "COMPLETED"
            THEN mons' = [mons EXCEPT ![m].pc = "d_find",
                                      ![m].status = answer]
          ELSE IF answer \in ProviderFailed
            THEN mons' = [mons EXCEPT ![m].pc = "d_failed",
                                      ![m].status = answer]
          ELSE IF mon.attempts < maxAttempts
            THEN mons' = [mons EXCEPT ![m].attempts = mon.attempts + 1]
          ELSE SetMon(m, "d_timeout", "")
    /\ last' = NoCall
    /\ UNCHANGED <<ops, custody, calls, tasks, mktVars>>

\* custodyService.updateCustodyStatus, lines 77-84, called at line 287
MintCustodyFind(m) ==
    /\ m \in 1..Len(mons)
    /\ mons[m].pc = "d_find"
    /\ IF custodyCanTransitionTo(custody[mons[m].rec].status, "MINTED")
         THEN SetMon(m, "d_write", "")
         ELSE SetMon(m, "stopped", "error")
    /\ last' = NoCall
    /\ UNCHANGED <<ops, custody, audit, calls, tasks, mktVars>>

\* custodyRepository.updateStatus with the metadata of lines 290-298
MintCustodyWrite(m) ==
    /\ m \in 1..Len(mons)
    /\ mons[m].pc = "d_write"
    /\ custodyUpdateStatus(mons[m].rec, "MINTED",
          [blockchain |-> <<"ETH_TEST5">>,
           tokenAddress |-> ContractOf(mons[m].taskId),
           tokenId |-> ContractOf(mons[m].taskId),
           txHash |-> TxHashOf(mons[m].taskId)])
    /\ SetMon(m, "d_audit", "")
    /\ last' = NoCall
    /\ UNCHANGED <<ops, audit, calls, tasks, mktVars>>

\* custodyService.updateCustodyStatus, lines 89-91: TOKEN_MINTED is logged
MintCustodyAudit(m, ok) ==
    /\ m \in 1..Len(mons)
    /\ mons[m].pc = "d_audit"
    /\ logEvent(ok, AuditEntry("TOKEN_MINTED", NoOp, mons[m].rec,
                               TxHashOf(mons[m].taskId)))
    /\ IF ok THEN SetMon(m, "d_minted", "")
             ELSE SetMon(m, "stopped", "error")
    /\ last' = NoCall
    /\ UNCHANGED <<ops, custody, calls, tasks, mktVars>>

\* monitorMintingStatus, lines 303-315: TOKEN_MINTED is logged once more
MintLogMinted(m, ok) ==
    /\ m \in 1..Len(mons)
    /\ mons[m].pc = "d_minted"
    /\ logEvent(ok, AuditEntry("TOKEN_MINTED", NoOp, mons[m].rec,
                               TxHashOf(mons[m].taskId)))
    /\ IF ok THEN SetMon(m, "stopped", "completed")
             ELSE SetMon(m, "stopped", "error")
    /\ last' = NoCall
    /\ UNCHANGED <<ops, custody, calls, tasks, mktVars>>

\* monitorMintingStatus, lines 317-331: TOKEN_MINT_FAILED is logged
MintFailedAudit(m, ok) ==
    /\ m \in 1..Len(mons)
    /\ mons[m].pc = "d_failed"
    /\ logEvent(ok, AuditEntry("TOKEN_MINT_FAILED", NoOp, mons[m].rec,
                               NullHash))
    /\ IF ok THEN SetMon(m, "stopped", "failed")
             ELSE SetMon(m, "stopped", "error")
    /\ last' = NoCall
    /\ UNCHANGED <<ops, custody, calls, tasks, mktVars>>

\* monitorMintingStatus, lines 338-346: TOKEN_MINT_TIMEOUT is logged
MintTimeoutAudit(m, ok) ==
    /\ m \in 1..Len(mons)
    /\ mons[m].pc = "d_timeout"
    /\ logEvent(ok, AuditEntry("TOKEN_MINT_TIMEOUT", NoOp, mons[m].rec,
                               NullHash))
    /\ IF ok THEN SetMon(m, "stopped", "timeout")
             ELSE SetMon(m, "stopped", "error")
    /\ last' = NoCall
    /\ UNCHANGED <<ops, custody, calls, tasks, mktVars>>

\* ------------------------------------------------------------- marketplace
\* listing.service.js, ListingStatus; trade.service.js, BidStatus
ListingStatus == {"ACTIVE", "SOLD", "CANCELLED", "EXPIRED"}
BidStatus == {"PENDING", "ACCEPTED", "REJECTED"}

\* the metadata of a marketplace audit entry names the bid, the listing and
\* the asset
MarketAuditEntry(eventType, bidId, listingId, assetId) ==
    [eventType |-> eventType, operationId |-> NoOp,
     custodyRecordId |-> assetId, txHash |-> NullHash,
     bidId |-> bidId, listingId |-> listingId]

\* calls that will still create a listing, or a bid
CreatingListing == {c \in Calls : calls[c].pc = "cl_create"}
CreatingBid == {c \in Calls : calls[c].pc \in {"pb_balance", "pb_create"}}

\* createListing, lines 423-458: the custody record of the asset and the
\* seller's ownership row are read; neither read writes anything, and custody
\* records are never deleted
CreateListingCheck(c, asset, actor, price, expiryDate, limit) ==
    /\ Free(c)
    /\ Len(listings) + Cardinality(CreatingListing) < limit
    /\ IF ownership[asset][actor] = 0
         THEN Return(c, "createListing", actor, NoOp, asset, "Forbidden", "")
         ELSE /\ calls' = [calls EXCEPT ![c] =
                   [IdleCall EXCEPT !.kind = "createListing",
                                    !.pc = "cl_create",
                                    !.actor = actor, !.rec = asset,
                                    !.amount = price, !.date = expiryDate]]
              /\ last' = NoCall
    /\ UNCHANGED <<opVars, audit, mktVars>>

\* createListing, lines 460-471: the listing is created ACTIVE
CreateListingCreate(c) ==
    /\ calls[c].pc = "cl_create"
    /\ listings' = Append(listings,
                          [assetId |-> calls[c].rec,
                           sellerId |-> calls[c].actor,
                           price |-> calls[c].amount, status |-> "ACTIVE",
                           expiryDate |-> calls[c].date])
    /\ calls' = [calls EXCEPT ![c].pc = "cl_audit",
                              ![c].listing = Len(listings) + 1]
    /\ last' = NoCall
    /\ UNCHANGED <<opVars, audit, bids, balances, ownership, now>>

\* createListing, lines 480-493: LISTING_CREATED is logged
CreateListingAudit(c, ok) ==
    /\ calls[c].pc = "cl_audit"
    /\ logEvent(ok, MarketAuditEntry("LISTING_CREATED", NoOp, calls[c].listing,
                                     calls[c].rec))
    /\ IF ok THEN Return(c, "createListing", calls[c].actor, calls[c].listing,
                         calls[c].rec, "ok", "ACTIVE")
             ELSE Return(c, "createListing", calls[c].actor, calls[c].listing,
                         calls[c].rec, "AuditError", "")
    /\ UNCHANGED <<opVars, mktVars>>

\* placeBid without the check of the listing status
PlaceBidListingAnyStatus(c, listing, amount, buyer, limit) ==
    /\ Free(c)
    /\ listing \in 1..Len(listings)
    /\ Len(bids) + Cardinality(CreatingBid) < limit
    /\ calls' = [calls EXCEPT ![c] =
          [IdleCall EXCEPT !.kind = "placeBid", !.pc = "pb_balance",
                           !.actor = buyer, !.listing = listing,
                           !.amount = amount]]
    /\ last' = NoCall
    /\ UNCHANGED <<opVars, audit, mktVars>>

\* placeBid, lines 355-374: the listing is read and must be ACTIVE
PlaceBidListing(c, listing, amount, buyer, limit) ==
    /\ Free(c)
    /\ listing \in 1..Len(listings)
    /\ Len(bids) + Cardinality(CreatingBid) < limit
    /\ IF listings[listing].status # "ACTIVE"
         THEN Return(c, "placeBid", buyer, NoOp, "", "BadRequest", "")
         ELSE /\ calls' = [calls EXCEPT ![c] =
                   [IdleCall EXCEPT !.kind = "placeBid", !.pc = "pb_balance",
                                    !.actor = buyer, !.listing = listing,
                                    !.amount = amount]]
              /\ last' = NoCall
    /\ UNCHANGED <<opVars, audit, mktVars>>

\* placeBid, lines 376-383: the buyer's balance is read and must cover the
\* amount
PlaceBidBalance(c) ==
    /\ calls[c].pc = "pb_balance"
    /\ IF balances[calls[c].actor] = NoRow
          \/ balances[calls[c].actor] < calls[c].amount
         THEN Return(c, "placeBid", calls[c].actor, NoOp, "", "BadRequest", "")
         ELSE Goto(c, "pb_create")
    /\ UNCHANGED <<opVars, audit, mktVars>>

\* placeBid, lines 385-393: the bid is created PENDING
PlaceBidCreate(c) ==
    /\ calls[c].pc = "pb_create"
    /\ bids' = Append(bids, [listingId |-> calls[c].listing,
                             buyerId |-> calls[c].actor,
                             amount |-> calls[c].amount,
                             status |-> "PENDING"])
    /\ calls' = [calls EXCEPT ![c].pc = "pb_audit", ![c].bid = Len(bids) + 1]
    /\ last' = NoCall
    /\ UNCHANGED <<opVars, audit, listings, balances, ownership, now>>

\* placeBid, lines 402-414: BID_PLACED is logged
PlaceBidAudit(c, ok) ==
    /\ calls[c].pc = "pb_audit"
    /\ logEvent(ok, MarketAuditEntry("BID_PLACED", calls[c].bid,
                                     calls[c].listing,
                                     listings[calls[c].listing].assetId))
    /\ IF ok THEN Return(c, "placeBid", calls[c].actor, calls[c].bid, "",
                         "ok", "PENDING")
             ELSE Return(c, "placeBid", calls[c].actor, calls[c].bid, "",
                         "AuditError", "")
    /\ UNCHANGED <<opVars, mktVars>>

\* acceptBid, lines 420-448: the bid is read with its listing; the requester
\* must be the seller, the bid PENDING and the listing ACTIVE
AcceptBidCheck(c, bid, sellerId) ==
    /\ Free(c)
    /\ bid \in 1..Len(bids)
    /\ LET listing == listings[bids[bid].listingId] IN
       IF listing.sellerId # sellerId
         THEN Return(c, "acceptBid", sellerId, bid, "", "Forbidden", "")
       ELSE IF bids[bid].status # "PENDING"
         THEN Return(c, "acceptBid", sellerId, bid, "", "BadRequest", "bid")
       ELSE IF listing.status # "ACTIVE"
         THEN Return(c, "acceptBid", sellerId, bid, "", "BadRequest",
                     "listing")
         ELSE /\ calls' = [calls EXCEPT ![c] =
                   [IdleCall EXCEPT !.kind = "acceptBid", !.pc = "ab_balance",
                                    !.actor = sellerId, !.bid = bid,
                                    !.listing = bids[bid].listingId,
                                    !.amount = bids[bid].amount]]
              /\ last' = NoCall
    /\ UNCHANGED <<opVars, audit, mktVars>>

\* acceptBid, lines 450-457: the buyer's balance is read, before the
\* transaction is opened, and must cover the amount; what was read is kept
AcceptBidBalance(c) ==
    /\ calls[c].pc = "ab_balance"
    /\ LET buyerBalance == balances[bids[calls[c].bid].buyerId] IN
       IF buyerBalance = NoRow \/ buyerBalance < calls[c].amount
         THEN Return(c, "acceptBid", calls[c].actor, calls[c].bid, "",
                     "BadRequest", "funds")
         ELSE /\ calls' = [calls EXCEPT ![c].pc = "ab_tx",
                                        ![c].buyerBalance = buyerBalance]
              /\ last' = NoCall
    /\ UNCHANGED <<opVars, audit, mktVars>>

\* the balance rows after lines 486-514: the buyer's row is set to the balance
\* read at line 451 less the amount, then the seller's row is read and
\* credited, or created with the amount
SettledBalances(buyer, seller, buyerBalance, amount) ==
    LET debited == [balances EXCEPT ![buyer] = buyerBalance - amount] IN
    [debited EXCEPT ![seller] =
        IF debited[seller] = NoRow THEN amount ELSE debited[seller] + amount]

\* the ownership rows of an asset after lines 468-484: the seller's row is
\* deleted and a row of quantity 1 created for the buyer
SettledOwnership(asset, seller, buyer) ==
    [[ownership[asset] EXCEPT ![seller] = 0] EXCEPT ![buyer] = 1]

\* acceptBid, lines 466-538: the transaction.  It commits as a whole or, when
\* a statement fails, not at all: the delete fails when the seller has no
\* ownership row of the asset, the create when the buyer still has one.
AcceptBidTransaction(c) ==
    /\ calls[c].pc = "ab_tx"
    /\ LET bid == calls[c].bid
           listing == calls[c].listing
           asset == listings[listing].assetId
           seller == calls[c].actor
           buyer == bids[bid].buyerId IN
       IF ownership[asset][seller] = 0
         THEN /\ Return(c, "acceptBid", seller, bid, "", "RecordNotFound", "")
              /\ UNCHANGED mktVars
       ELSE IF buyer # seller /\ ownership[asset][buyer] # 0
         THEN /\ Return(c, "acceptBid", seller, bid, "", "UniqueConstraint",
                        "")
              /\ UNCHANGED mktVars
         ELSE /\ ownership' = [ownership EXCEPT
                                 ![asset] = SettledOwnership(asset, seller,
                                                             buyer)]
              /\ balances' = SettledBalances(buyer, seller,
                                             calls[c].buyerBalance,
                                             calls[c].amount)
              /\ listings' = [listings EXCEPT ![listing].status = "SOLD"]
              /\ bids' = [bids EXCEPT ![bid].status = "ACCEPTED"]
              /\ Goto(c, "ab_audit")
    /\ UNCHANGED <<opVars, audit, now>>

\* acceptBid, lines 549-561: BID_ACCEPTED is logged, after the transaction
\* has committed
AcceptBidAudit(c, ok) ==
    /\ calls[c].pc = "ab_audit"
    /\ logEvent(ok, MarketAuditEntry("BID_ACCEPTED", calls[c].bid,
                                     calls[c].listing,
                                     listings[calls[c].listing].assetId))
    /\ IF ok THEN Goto(c, "ab_transferred")
             ELSE Return(c, "acceptBid", calls[c].actor, calls[c].bid, "",
                         "AuditError", "")
    /\ UNCHANGED <<opVars, mktVars>>

\* acceptBid, lines 563-574: OWNERSHIP_TRANSFERRED is logged and the accepted
\* bid returned
AcceptBidTransferredAudit(c, ok) ==
    /\ calls[c].pc = "ab_transferred"
    /\ logEvent(ok, MarketAuditEntry("OWNERSHIP_TRANSFERRED", calls[c].bid,
                                     calls[c].listing,
                                     listings[calls[c].listing].assetId))
    /\ IF ok THEN Return(c, "acceptBid", calls[c].actor, calls[c].bid, "",
                         "ok", "ACCEPTED")
             ELSE Return(c, "acceptBid", calls[c].actor, calls[c].bid, "",
                         "AuditError", "")
    /\ UNCHANGED <<opVars, mktVars>>

\* rejectBid, lines 580-603: the bid is read with its listing; the requester
\* must be the seller and the bid PENDING
RejectBidCheck(c, bid, sellerId) ==
    /\ Free(c)
    /\ bid \in 1..Len(bids)
    /\ LET listing == listings[bids[bid].listingId] IN
       IF listing.sellerId # sellerId
         THEN Return(c, "rejectBid", sellerId, bid, "", "Forbidden", "")
       ELSE IF bids[bid].status # "PENDING"
         THEN Return(c, "rejectBid", sellerId, bid, "", "BadRequest", "bid")
         ELSE /\ calls' = [calls EXCEPT ![c] =
                   [IdleCall EXCEPT !.kind = "rejectBid", !.pc = "rb_update",
                                    !.actor = sellerId, !.bid = bid,
                                    !.listing = bids[bid].listingId]]
              /\ last' = NoCall
    /\ UNCHANGED <<opVars, audit, mktVars>>

\* rejectBid, lines 605-612: the bid row is updated to REJECTED
RejectBidUpdate(c) ==
    /\ calls[c].pc = "rb_update"
    /\ bids' = [bids EXCEPT ![calls[c].bid].status = "REJECTED"]
    /\ Goto(c, "rb_audit")
    /\ UNCHANGED <<opVars, audit, listings, balances, ownership, now>>

\* rejectBid, lines 621-632: BID_REJECTED is logged and the bid returned
RejectBidAudit(c, ok) ==
    /\ calls[c].pc = "rb_audit"
    /\ logEvent(ok, MarketAuditEntry("BID_REJECTED", calls[c].bid,
                                     calls[c].listing,
                                     listings[calls[c].listing].assetId))
    /\ IF ok THEN Return(c, "rejectBid", calls[c].actor, calls[c].bid, "",
                         "ok", "REJECTED")
             ELSE Return(c, "rejectBid", calls[c].actor, calls[c].bid, "",
                         "AuditError", "")
    /\ UNCHANGED <<opVars, mktVars>>

\* cancelListing, lines 626-644: the listing is read; the requester must be
\* its seller and the listing ACTIVE
CancelListingCheck(c, listing, userId) ==
    /\ Free(c)
    /\ listing \in 1..Len(listings)
    /\ IF listings[listing].sellerId # userId
         THEN Return(c, "cancelListing", userId, listing, "", "Forbidden", "")
       ELSE IF listings[listing].status # "ACTIVE"
         THEN Return(c, "cancelListing", userId, listing, "", "BadRequest", "")
         ELSE /\ calls' = [calls EXCEPT ![c] =
                   [IdleCall EXCEPT !.kind = "cancelListing",
                                    !.pc = "cn_update",
                                    !.actor = userId, !.listing = listing]]
              /\ last' = NoCall
    /\ UNCHANGED <<opVars, audit, mktVars>>

\* cancelListing, lines 646-653: the listing row is updated to CANCELLED
CancelListingUpdate(c) ==
    /\ calls[c].pc = "cn_update"
    /\ listings' = [listings EXCEPT ![calls[c].listing].status = "CANCELLED"]
    /\ Goto(c, "cn_audit")
    /\ UNCHANGED <<opVars, audit, bids, balances, ownership, now>>

\* cancelListing, lines 661-670: LISTING_CANCELLED is logged and the listing
\* returned
CancelListingAudit(c, ok) ==
    /\ calls[c].pc = "cn_audit"
    /\ logEvent(ok, MarketAuditEntry("LISTING_CANCELLED", NoOp,
                                     calls[c].listing,
                                     listings[calls[c].listing].assetId))
    /\ IF ok THEN Return(c, "cancelListing", calls[c].actor,
                         calls[c].listing, "", "ok", "CANCELLED")
             ELSE Return(c, "cancelListing", calls[c].actor,
                         calls[c].listing, "", "AuditError", "")
    /\ UNCHANGED <<opVars, mktVars>>

\* an updateMany to EXPIRED of every listing whose expiry date is before t,
\* whatever its status
expireListingsAnyStatus(rows, t) ==
    [k \in 1..Len(rows) |->
        IF rows[k].expiryDate < t
          THEN [rows[k] EXCEPT !.status = "EXPIRED"]
          ELSE rows[k]]

\* expireListings, lines 680-691: the updateMany to EXPIRED of every listing
\* that is ACTIVE and whose expiry date is before t
expireListings(rows, t) ==
    [k \in 1..Len(rows) |->
        IF rows[k].status = "ACTIVE" /\ rows[k].expiryDate < t
          THEN [rows[k] EXCEPT !.status = "EXPIRED"]
          ELSE rows[k]]

\* expireListings, lines 677-698: the background job reads the clock and runs
\* the one statement
ExpireListings ==
    /\ listings' = expireListings(listings, now)
    /\ last' = [NoCall EXCEPT !.kind = "expireListings", !.result = "ok"]
    /\ UNCHANGED <<opVars, audit, calls, bids, balances, ownership, now>>

\* the server clock advances
Tick ==
    /\ now < MaxDate
    /\ now' = now + 1
    /\ last' = NoCall
    /\ UNCHANGED <<opVars, audit, calls, listings, bids, balances, ownership>>

\* ------------------------------------------------------------ environments
InFlight == {c \in Calls : calls[c].pc # "idle"}

\* The steps of the service under an environment: at most `opLimit`
\* operations are created; an initiate arrives while fewer than `initLimit`
\* calls are in flight, an approve or a reject while fewer than
\* `decideLimit` are; the outcomes of an audit append and of a provider
\* submission request are drawn from `auditOk` and `network`; and a task is
\* reported non-terminal at most `pending` times.
Lifecycle(opLimit, initLimit, decideLimit, auditOk, network, pending) ==
    \/ \E c \in Calls, r \in Records, t \in OperationType, a \in Makers :
          /\ Cardinality(InFlight) < initLimit
          /\ InitiateCheck(c, r, t, a, opLimit)
    \/ \E c \in Calls : InitiateCreate(c)
    \/ \E c \in Calls, ok \in auditOk : InitiateAudit(c, ok)
    \/ \E c \in Calls, id \in 1..Len(ops), a \in Actors :
          /\ Cardinality(InFlight) < decideLimit
          /\ ApproveCheck(c, id, a)
    \/ \E c \in Calls : ApproveUpdate(c)
    \/ \E c \in Calls, ok \in auditOk : ApproveAudit(c, ok)
    \/ \E c \in Calls, id \in 1..Len(ops), a \in Actors :
          /\ Cardinality(InFlight) < decideLimit
          /\ RejectCheck(c, id, a)
    \/ \E c \in Calls : RejectUpdate(c)
    \/ \E c \in Calls, ok \in auditOk : RejectAudit(c, ok)
    \/ \E c \in Calls, net \in network : ExecuteSubmit(c, net)
    \/ \E c \in Calls : ExecuteUpdate(c)
    \/ \E c \in Calls, ok \in auditOk : ExecuteAudit(c, ok)
    \/ \E c \in Calls, ok \in auditOk : ExecuteCatchAudit(c, ok)
    \/ \E c \in Calls : ExecuteCatchUpdate(c)
    \/ \E m \in 1..Len(mons), ok \in auditOk :
          \E answer \in Answers(m, pending) : Poll(m, answer, ok)
    \/ \E m \in 1..Len(mons) : MonitorCustodyFind(m)
    \/ \E m \in 1..Len(mons) : MonitorCustodyWrite(m)
    \/ \E m \in 1..Len(mons), ok \in auditOk : MonitorCustodyAudit(m, ok)
    \/ \E m \in 1..Len(mons) : MonitorComplete(m)
    \/ \E m \in 1..Len(mons), ok \in auditOk : MonitorFailAudit(m, ok)
    \/ \E m \in 1..Len(mons) : MonitorFail(m)

\* Spec: one call at a time; audit appends and provider calls may fail.
Next == Lifecycle(MaxOps, 1, 1, BOOLEAN,
              {AllOk, Refused}, MaxPendingPolls)
Spec == Init /\ [][Next]_vars

\* SpecConc: calls on one operation overlap; the audit ledger is available.
NextConc == Lifecycle(MaxOps, NumCalls, NumCalls, {TRUE},
              {AllOk, Refused}, MaxConcPolls)
SpecConc == Init /\ [][NextConc]_vars

\* SpecRace: initiate calls overlap; the audit ledger is available and the
\* provider answers every poll with a terminal status or not at all.
NextRace == Lifecycle(MaxRaceOps, NumCalls, 1, {TRUE},
              {AllOk, Refused}, 0)
SpecRace == Init /\ [][NextRace]_vars

\* SpecTimeout: one operation whose task the provider may report
\* non-terminal for as long as it is polled.
NextTimeout == Lifecycle(MaxOps, 1, 1, {TRUE},
              {AllOk, Refused}, maxAttempts + 1)
SpecTimeout == Init /\ [][NextTimeout]_vars

\* the continuations the event loop runs once the awaited database, ledger or
\* provider call of a request in progress has settled
CallSteps(auditOk, network) ==
    \/ \E c \in Calls : InitiateCreate(c)
    \/ \E c \in Calls, ok \in auditOk : InitiateAudit(c, ok)
    \/ \E c \in Calls : ApproveUpdate(c)
    \/ \E c \in Calls, ok \in auditOk : ApproveAudit(c, ok)
    \/ \E c \in Calls : RejectUpdate(c)
    \/ \E c \in Calls, ok \in auditOk : RejectAudit(c, ok)
    \/ \E c \in Calls, net \in network : ExecuteSubmit(c, net)
    \/ \E c \in Calls : ExecuteUpdate(c)
    \/ \E c \in Calls, ok \in auditOk : ExecuteAudit(c, ok)
    \/ \E c \in Calls, ok \in auditOk : ExecuteCatchAudit(c, ok)
    \/ \E c \in Calls : ExecuteCatchUpdate(c)

\* the timer of setTimeout(poll, delay), lines 283 and 292, and the
\* continuations of a poll
MonitorSteps(auditOk, pending) ==
    \/ \E m \in 1..Len(mons), ok \in auditOk :
          \E answer \in Answers(m, pending) : Poll(m, answer, ok)
    \/ \E m \in 1..Len(mons) : MonitorCustodyFind(m)
    \/ \E m \in 1..Len(mons) : MonitorCustodyWrite(m)
    \/ \E m \in 1..Len(mons), ok \in auditOk : MonitorCustodyAudit(m, ok)
    \/ \E m \in 1..Len(mons) : MonitorComplete(m)
    \/ \E m \in 1..Len(mons), ok \in auditOk : MonitorFailAudit(m, ok)
    \/ \E m \in 1..Len(mons) : MonitorFail(m)

\* SpecLive: SpecTimeout on an event loop that runs every continuation that
\* is ready and fires every timer that is set.
SpecLive ==
    /\ Init /\ [][NextTimeout]_vars
    /\ WF_vars(CallSteps({TRUE}, {AllOk, Refused}))
    /\ WF_vars(MonitorSteps({TRUE}, maxAttempts + 1))

\* SpecRetry: one call at a time on one operation; the request of a
\* submission may time out once or every time, or be refused.
NextRetry == Lifecycle(MaxOps, 1, 1, {TRUE},
              {AllOk, Refused, OneTimeout, AllTimeout}, MaxPendingPolls)
SpecRetry == Init /\ [][NextRetry]_vars

\* The steps of the token mint service: at most `mintLimit` token links are
\* issued, a call arrives while no call is in flight, the outcomes of an
\* audit append and of the issue request are drawn from `auditOk` and
\* `network`, and a token link is reported non-terminal at most `pending`
\* times.
TokenMint(mintLimit, auditOk, network, pending) ==
    \/ \E c \in Calls, r \in Records, a \in Actors :
          /\ InFlight = {}
          /\ Len(tasks) < mintLimit
          /\ MintTokenCheck(c, r, a)
    \/ \E c \in Calls, net \in network : MintTokenIssue(c, net)
    \/ \E c \in Calls, ok \in auditOk : MintTokenAudit(c, ok)
    \/ \E c \in Calls, ok \in auditOk : MintTokenCatch(c, ok)
    \/ \E m \in 1..Len(mons), ok \in auditOk :
          \E answer \in Answers(m, pending) : MintPoll(m, answer, ok)
    \/ \E m \in 1..Len(mons) : MintCustodyFind(m)
    \/ \E m \in 1..Len(mons) : MintCustodyWrite(m)
    \/ \E m \in 1..Len(mons), ok \in auditOk : MintCustodyAudit(m, ok)
    \/ \E m \in 1..Len(mons), ok \in auditOk : MintLogMinted(m, ok)
    \/ \E m \in 1..Len(mons), ok \in auditOk : MintFailedAudit(m, ok)
    \/ \E m \in 1..Len(mons), ok \in auditOk : MintTimeoutAudit(m, ok)

\* SpecMint: the token mint service alone, one call at a time; audit appends
\* may fail, the issue request goes through, and the provider may report a
\* token link non-terminal for as long as it is polled.
NextMint == TokenMint(MaxMints, BOOLEAN, {AllOk}, maxAttempts + 1)
SpecMint == Init /\ [][NextMint]_vars

\* The steps of the marketplace under an environment: at most `listLimit`
\* listings and `bidLimit` bids are created, a listing is created while
\* fewer than `listConc` calls are in flight, and the outcome of an audit
\* append is drawn from `auditOk`, or from `tradeOk` when acceptBid makes it;
\* a listing is created at a price in `prices` with an expiry date in
\* `expiries`.
Market(listLimit, bidLimit, listConc, auditOk, tradeOk, prices, expiries) ==
    \/ \E c \in Calls, a \in Assets, u \in Users :
          \E p \in prices, d \in expiries :
             /\ Cardinality(InFlight) < listConc
             /\ CreateListingCheck(c, a, u, p, d, listLimit)
    \/ \E c \in Calls : CreateListingCreate(c)
    \/ \E c \in Calls, ok \in auditOk : CreateListingAudit(c, ok)
    \/ \E c \in Calls, l \in 1..Len(listings), n \in BidAmounts, u \in Users :
          PlaceBidListing(c, l, n, u, bidLimit)
    \/ \E c \in Calls : PlaceBidBalance(c)
    \/ \E c \in Calls : PlaceBidCreate(c)
    \/ \E c \in Calls, ok \in auditOk : PlaceBidAudit(c, ok)
    \/ \E c \in Calls, b \in 1..Len(bids), u \in Users : AcceptBidCheck(c, b, u)
    \/ \E c \in Calls : AcceptBidBalance(c)
    \/ \E c \in Calls : AcceptBidTransaction(c)
    \/ \E c \in Calls, ok \in tradeOk : AcceptBidAudit(c, ok)
    \/ \E c \in Calls, ok \in tradeOk : AcceptBidTransferredAudit(c, ok)

\* SpecMarket: listings are created one call at a time; bids are placed and
\* accepted by overlapping calls; the audit appends of acceptBid may fail.
NextMarket == Market(MaxListings, MaxBids, 1, {TRUE}, BOOLEAN,
                     {MaxAmount}, {MaxDate})
SpecMarket == Init /\ [][NextMarket]_vars

\* The steps of rejectBid: a call arrives while no other rejectBid call is
\* in flight, and the outcome of its audit append is drawn from `auditOk`.
RejectBids(auditOk) ==
    \/ \E c \in Calls, b \in 1..Len(bids), u \in Users :
          /\ \A d \in Calls : calls[d].kind # "rejectBid"
          /\ RejectBidCheck(c, b, u)
    \/ \E c \in Calls : RejectBidUpdate(c)
    \/ \E c \in Calls, ok \in auditOk : RejectBidAudit(c, ok)

\* SpecBids: a listing is created at any price; bids are placed, accepted
\* and rejected by overlapping calls; the audit ledger is available.
NextBids == Market(MaxBidListings, MaxBids, 1, {TRUE}, {TRUE},
                   BidAmounts, {MaxDate})
              \/ RejectBids({TRUE})
SpecBids == Init /\ [][NextBids]_vars

\* The steps that end a listing without a sale: cancelListing, which arrives
\* while fewer than `cancelConc` calls are in flight and whose audit append
\* has its outcome drawn from `auditOk`, the expiry job, which runs at any
\* moment, and the passing of time.
Listings(auditOk, cancelConc) ==
    \/ \E c \in Calls, l \in 1..Len(listings), u \in Users :
          /\ Cardinality(InFlight) < cancelConc
          /\ CancelListingCheck(c, l, u)
    \/ \E c \in Calls : CancelListingUpdate(c)
    \/ \E c \in Calls, ok \in auditOk : CancelListingAudit(c, ok)
    \/ ExpireListings
    \/ Tick

\* SpecExpiry: listings with any expiry date are created and cancelled one
\* call at a time, and bid on and sold by overlapping calls, while time
\* passes and the expiry job runs at any moment; the audit ledger is
\* available.
NextExpiry == Market(MaxListings, MaxExpiryBids, 1, {TRUE}, {TRUE},
                     {MaxAmount}, Dates)
                \/ Listings({TRUE}, 1)
SpecExpiry == Init /\ [][NextExpiry]_vars

\* ------------------------------------------------------------------ claims
OpIds == 1..Len(ops)
HasAudit(eventType, id) ==
    \E k \in 1..Len(audit) :
        audit[k].eventType = eventType /\ audit[k].operationId = id
TasksOf(id) == {t \in 1..Len(tasks) : tasks[t] = id}
MonitorsOf(id) == {m \in 1..Len(mons) : mons[m].op = id}

\* C1: no two operations in a non-terminal status (PENDING_CHECKER or
\* APPROVED) reference the same custody record at the same time.
C1_OneNonTerminalPerRecord ==
    \A r \in Records : Cardinality(findPendingByCustodyRecord(r)) <= 1

\* C2: an approve whose checker is the operation's maker returns the
\* forbidden error whatever the status of the operation, never gets past
\* the check, and the step in which it returns leaves the operation store,
\* the custody records, the audit ledger, the monitors and the provider
\* untouched.
C2_MakerCannotApprove ==
    /\ [](/\ (last.kind = "approve"
                /\ last.actor = ops[last.op].initiatedBy)
               => last.result = "Forbidden"
          /\ \A c \in Calls :
               calls[c].kind = "approve"
                 => calls[c].actor # ops[calls[c].op].initiatedBy)
    /\ [][(last'.kind = "approve" /\ last'.result = "Forbidden")
            => UNCHANGED <<ops, custody, audit, mons, tasks>>]_vars

\* C2 witness: the maker's approve was refused on an operation that had
\* already left PENDING_CHECKER.
C2_Witness ==
    /\ last.kind = "approve"
    /\ last.result = "Forbidden"
    /\ last.actor = ops[last.op].initiatedBy
    /\ ops[last.op].status \in TerminalStatus

\* C3: once an operation is in a terminal status (EXECUTED, REJECTED or
\* FAILED), no step changes its status or any of its recorded fields.
C3_TerminalImmutable ==
    [][\A i \in OpIds :
          ops[i].status \in TerminalStatus => ops'[i] = ops[i]]_vars

\* C4: an operation is submitted to the provider at most once and at most
\* one monitor is started for it, however many approve calls overlap.
C4_OneSubmissionOneMonitor ==
    \A i \in OpIds :
        /\ Cardinality(TasksOf(i)) <= 1
        /\ Cardinality(MonitorsOf(i)) <= 1

BidIds == 1..Len(bids)
HasBidAudit(eventType, bid) ==
    \E k \in 1..Len(audit) :
        audit[k].eventType = eventType /\ audit[k].bidId = bid
\* acceptBid calls that have committed the transaction and not yet returned
Settling(bid) ==
    \E c \in Calls : /\ calls[c].pc \in {"ab_audit", "ab_transferred"}
                     /\ calls[c].bid = bid
Balance(u) == IF balances[u] = NoRow THEN 0 ELSE balances[u]
RECURSIVE SumOver(_, _)
SumOver(f, S) ==
    IF S = {} THEN 0
    ELSE LET x == CHOOSE y \in S : TRUE IN f[x] + SumOver(f, S \ {x})
TotalBalance == SumOver([u \in Users |-> Balance(u)], Users)
TotalQuantity(asset) == SumOver(ownership[asset], Users)

\* C5: once no acceptBid call is at work on a bid, the effects of accepting
\* it are all there or none is: the bid is ACCEPTED (with the ownership, the
\* balances and the listing settled in the same transaction) exactly when
\* the BID_ACCEPTED entry is in the ledger, and exactly when the
\* OWNERSHIP_TRANSFERRED entry is.
C5_AcceptBidAllOrNothing ==
    \A b \in BidIds :
        ~Settling(b)
          => /\ bids[b].status = "ACCEPTED" <=> HasBidAudit("BID_ACCEPTED", b)
             /\ bids[b].status = "ACCEPTED"
                  <=> HasBidAudit("OWNERSHIP_TRANSFERRED", b)

\* C6: no step changes the sum of the balances over all users or the sum of
\* the ownership quantities of an asset over all owners: a settlement only
\* moves money and quantity from one party to the other.
C6_Conservation ==
    [][/\ TotalBalance' = TotalBalance
       /\ \A a \in Assets : TotalQuantity(a)' = TotalQuantity(a)]_vars

\* C7: a listing has at most one ACCEPTED bid, and the seller's acceptBid on
\* a PENDING bid of a listing that another acceptBid has sold is refused
\* because the listing is no longer ACTIVE (or because the buyer can no
\* longer pay), never by an error of the storage.
C7_OneAcceptPerListing ==
    /\ \A b1, b2 \in BidIds :
         (/\ bids[b1].listingId = bids[b2].listingId
          /\ bids[b1].status = "ACCEPTED"
          /\ bids[b2].status = "ACCEPTED") => b1 = b2
    /\ (/\ last.kind = "acceptBid"
        /\ last.actor = listings[bids[last.op].listingId].sellerId
        /\ bids[last.op].status = "PENDING"
        /\ listings[bids[last.op].listingId].status = "SOLD")
         => /\ last.result = "BadRequest"
            /\ last.returned \in {"listing", "funds"}

\* C8: an approve whose submission succeeded returns the operation in
\* status APPROVED, and a submitted operation stays APPROVED, with its
\* approver and task handle recorded, until its monitor has been given a
\* terminal provider status.
C8_ApprovedUntilTerminal ==
    /\ (last.kind = "approve" /\ last.result = "ok")
         => last.returned = "APPROVED"
    /\ \A i \in OpIds :
         (/\ ops[i].fireblocksTaskId # NoTask
          /\ \A m \in MonitorsOf(i) : mons[m].status = "")
           => /\ ops[i].status = "APPROVED"
              /\ ops[i].approvedBy # ""

\* C9: when the provider call made during approve has failed and the call
\* has returned, the operation is FAILED with a failure reason and an
\* OPERATION_FAILED entry is in the ledger.
C9_SubmissionFailureEndsFailed ==
    (last.kind = "approve" /\ last.caught = "ProviderError")
      => /\ ops[last.op].status = "FAILED"
         /\ ops[last.op].failureReason # ""
         /\ HasAudit("OPERATION_FAILED", last.op)

\* C10: when a monitor has used up its attempts without a terminal provider
\* status, its operation is FAILED and an OPERATION_FAILED entry is in the
\* ledger.
C10_TimeoutEndsFailed ==
    \A m \in 1..Len(mons) :
        mons[m].outcome = "timeout"
          => /\ ops[mons[m].op].status = "FAILED"
             /\ HasAudit("OPERATION_FAILED", mons[m].op)

\* the custody status a monitor moves the record of its operation to
TargetStatus(type) == IF type = "MINT" THEN "MINTED" ELSE "BURNED"

\* C11: once the monitor of a MINT or BURN operation has stopped, the
\* custody record carries the new status exactly when the operation carries
\* the transaction hash: the two writes of a COMPLETED poll are both there
\* or both missing.
C11_CompletionIsOneUpdate ==
    \A m \in 1..Len(mons) :
        (mons[m].pc = "stopped" /\ mons[m].type \in {"MINT", "BURN"})
          => (custody[ops[mons[m].op].custodyRecordId].status
                = TargetStatus(mons[m].type)
              <=> ops[mons[m].op].txHash # NullHash)

\* C12: an EXECUTED MINT operation whose monitor has seen the task COMPLETED
\* has a token address on its custody record, a transaction hash of its own, and
\* an OPERATION_EXECUTED entry in the ledger with that transaction hash.
C12_ExecutedHasTokenAndHash ==
    \A m \in 1..Len(mons) :
        (/\ mons[m].outcome = "completed"
         /\ mons[m].type = "MINT"
         /\ ops[mons[m].op].status = "EXECUTED")
          => /\ custody[ops[mons[m].op].custodyRecordId].tokenAddress
                  # NoToken
             /\ ops[mons[m].op].txHash # NullHash
             /\ \E k \in 1..Len(audit) :
                  /\ audit[k].eventType = "OPERATION_EXECUTED"
                  /\ audit[k].operationId = mons[m].op
                  /\ audit[k].txHash = ops[mons[m].op].txHash

\* C13: the write that makes an operation EXECUTED happens at most once: no
\* step writes EXECUTED to an operation that is EXECUTED already.
C13_ExecutedOnce ==
    [][\A i \in OpIds :
          (ops[i].status = "EXECUTED" /\ ops'[i].status = "EXECUTED")
            => ops'[i] = ops[i]]_vars

\* C14: the approver of an operation, and the rejecter of an operation, is
\* never its maker.
C14_DecidedByAnother ==
    \A i \in OpIds :
        /\ ops[i].approvedBy # "" => ops[i].approvedBy # ops[i].initiatedBy
        /\ ops[i].rejectedBy # "" => ops[i].rejectedBy # ops[i].initiatedBy

\* an approve or reject call on operation id returns from its check in this
\* step: no slot changes and the outcome of the call is published
RefusedAtCheck(id) ==
    /\ calls' = calls
    /\ last'.kind \in {"approve", "reject"}
    /\ last'.op = id

\* an approve or reject call on operation id gets past its check in this step
PassesCheck(id) ==
    \E c \in Calls : /\ calls[c].pc = "idle"
                     /\ calls'[c].pc \in {"a_update", "r_update"}
                     /\ calls'[c].op = id

\* C15 as stated: an approve or a reject that arrives while the operation is
\* not PENDING_CHECKER does not get past its check, returns the
\* invalid-transition error and changes nothing.
C15_InvalidTransitionWhenever ==
    [][\A id \in OpIds :
          ops[id].status # "PENDING_CHECKER"
            => /\ ~PassesCheck(id)
               /\ RefusedAtCheck(id)
                    => /\ last'.result = "BadRequest"
                       /\ UNCHANGED <<ops, custody, audit, mons, tasks>>]_vars

\* C15 amended: an approve or a reject that arrives while the operation is
\* not PENDING_CHECKER does not get past its check and changes nothing; it
\* returns the invalid-transition error, except that an approve by the maker
\* returns the forbidden error.
C15_RefusedWhenNotPending ==
    [][\A id \in OpIds :
          ops[id].status # "PENDING_CHECKER"
            => /\ ~PassesCheck(id)
               /\ RefusedAtCheck(id)
                    => /\ last'.result =
                            IF /\ last'.kind = "approve"
                               /\ last'.actor = ops[id].initiatedBy
                              THEN "Forbidden" ELSE "BadRequest"
                       /\ UNCHANGED <<ops, custody, audit, mons, tasks>>]_vars

\* C15 witness: a checker's approve was refused as an invalid transition on
\* an operation that had been rejected.
C15_Witness ==
    /\ last.kind = "approve"
    /\ last.result = "BadRequest"
    /\ last.actor # ops[last.op].initiatedBy
    /\ ops[last.op].status = "REJECTED"

\* the custody status an operation type is initiated on: a MINT on a LINKED
\* record, a TRANSFER or a BURN on a MINTED one
RequiredStatus(type) == IF type = "MINT" THEN "LINKED" ELSE "MINTED"

\* C16: an initiate of a MINT gets past its checks, to the creation of the
\* operation, only on a custody record that is in the status a MINT
\* requires at that moment.
C16_InitiateChecksCustodyStatus ==
    [][\A c \in Calls :
          (/\ calls[c].pc = "idle"
           /\ calls'[c].pc = "i_create"
           /\ calls'[c].type = "MINT")
            => custody[calls'[c].rec].status
                 = RequiredStatus(calls'[c].type)]_vars

\* C17: every write of a custody record is a step of the lattice UNLINKED to
\* LINKED to MINTED to WITHDRAWN or BURNED, taken from the status the record
\* has when it is written.
C17_CustodyLattice ==
    [][\A r \in Records :
          custody'[r] # custody[r]
            => custodyCanTransitionTo(custody[r].status,
                                      custody'[r].status)]_vars

\* C18: a call of acceptBid commits its transaction only when, at that
\* moment, the requester is the seller of the listing, the bid is PENDING,
\* the listing is ACTIVE and the buyer's balance covers the amount; and a
\* call refused by one of these checks changes no ownership row, balance,
\* listing or bid.
C18_AcceptBidPreconditions ==
    [][/\ \A c \in Calls :
            (calls[c].pc = "ab_tx" /\ calls'[c].pc = "ab_audit")
              => LET bid == bids[calls[c].bid]
                     listing == listings[bid.listingId] IN
                 /\ calls[c].actor = listing.sellerId
                 /\ bid.status = "PENDING"
                 /\ listing.status = "ACTIVE"
                 /\ Balance(bid.buyerId) >= bid.amount
       /\ (last'.kind = "acceptBid"
             /\ last'.result \in {"Forbidden", "BadRequest"})
            => UNCHANGED mktVars]_vars

\* C19: a call of placeBid gets past the listing it read only if that
\* listing is ACTIVE and past the balance it read only if that balance covers
\* the amount, and a refused call changes nothing; a call that gets through
\* adds exactly one bid, PENDING, for its listing, buyer and amount, and
\* changes no other bid and no balance, ownership row or listing.
C19_PlaceBidChecksThenCreates ==
    [][/\ \A c \in Calls :
            /\ (calls[c].pc = "idle" /\ calls'[c].pc = "pb_balance")
                 => listings[calls'[c].listing].status = "ACTIVE"
            /\ (calls[c].pc = "pb_balance" /\ calls'[c].pc = "pb_create")
                 => /\ balances[calls[c].actor] # NoRow
                    /\ balances[calls[c].actor] >= calls[c].amount
            /\ (calls[c].pc = "pb_create" /\ calls'[c].pc # "pb_create")
                 => /\ bids' = Append(bids,
                                      [listingId |-> calls[c].listing,
                                       buyerId |-> calls[c].actor,
                                       amount |-> calls[c].amount,
                                       status |-> "PENDING"])
                    /\ UNCHANGED <<listings, balances, ownership>>
       /\ (last'.kind = "placeBid" /\ last'.result = "BadRequest")
            => UNCHANGED mktVars
       /\ Len(bids') # Len(bids)
            => \E c \in Calls : /\ calls[c].pc = "pb_create"
                                /\ calls'[c].pc = "pb_audit"]_vars

\* C19 witness: a bid by a user whose balance covers any amount was refused
\* when no listing was ACTIVE any more.
C19_Witness ==
    /\ last.kind = "placeBid"
    /\ last.result = "BadRequest"
    /\ Balance(last.actor) >= MaxAmount
    /\ Len(listings) > 0
    /\ \A l \in 1..Len(listings) : listings[l].status # "ACTIVE"

\* C20: a call of rejectBid writes only when, at that moment, the requester
\* is the seller of the listing and the bid is PENDING; its write sets that
\* bid to REJECTED and changes no other bid and no balance, ownership row or
\* listing; and a refused call changes nothing.
C20_RejectBidFrame ==
    [][/\ \A c \in Calls :
            (calls[c].pc = "rb_update" /\ calls'[c].pc = "rb_audit")
              => /\ calls[c].actor
                      = listings[bids[calls[c].bid].listingId].sellerId
                 /\ bids[calls[c].bid].status = "PENDING"
                 /\ bids' = [bids EXCEPT ![calls[c].bid].status = "REJECTED"]
                 /\ UNCHANGED <<listings, balances, ownership>>
       /\ (last'.kind = "rejectBid"
             /\ last'.result \in {"Forbidden", "BadRequest"})
            => UNCHANGED mktVars]_vars

\* C21: when acceptBid returns the accepted bid, the listing of that bid is
\* SOLD and the price it records is the amount of the accepted bid.
C21_SoldAtBidAmount ==
    (last.kind = "acceptBid" /\ last.result = "ok")
      => LET listing == listings[bids[last.op].listingId] IN
         /\ listing.status = "SOLD"
         /\ listing.price = bids[last.op].amount

\* the stage of the lifecycle an audit entry of an operation belongs to
Stage(eventType) ==
    CASE eventType = "OPERATION_CREATED" -> 1
      [] eventType = "OPERATION_APPROVED" -> 2
      [] eventType = "ON_CHAIN_SUBMISSION" -> 3
      [] eventType \in {"BLOCK_PROPAGATION", "FINALIZING_SETTLEMENT"} -> 4
      [] eventType \in {"OPERATION_EXECUTED", "OPERATION_FAILED",
                        "OPERATION_REJECTED"} -> 5

\* C22: in the ledger, the entries of one operation stand in the order
\* created, approved, submission, progress, terminal: no entry of a later
\* stage precedes an entry of an earlier stage.
C22_AuditOrder ==
    \A j \in 1..Len(audit), k \in 1..Len(audit) :
        (j < k /\ audit[j].operationId # NoOp
               /\ audit[j].operationId = audit[k].operationId)
          => Stage(audit[j].eventType) <= Stage(audit[k].eventType)

\* the rows of the audit table: an entry is stamped when it is created, and
\* the ledger holds the entries in the order of their creation
AuditRows == [k \in 1..Len(audit) |-> [timestamp |-> k, entry |-> audit[k]]]

\* orderBy: { timestamp: 'desc' }, applied to rows in ascending order
OrderByTimestampDesc(rows) ==
    [k \in 1..Len(rows) |-> rows[Len(rows) + 1 - k]]

\* auditRepository.findByOperation and findByCustodyRecord, with the default
\* limit and offset
findByOperation(id) ==
    OrderByTimestampDesc(
        SelectSeq(AuditRows, LAMBDA row : row.entry.operationId = id))

findByCustodyRecord(rec) ==
    OrderByTimestampDesc(
        SelectSeq(AuditRows, LAMBDA row : row.entry.custodyRecordId = rec))

Chronological(rows) ==
    \A j \in 1..Len(rows), k \in 1..Len(rows) :
        j < k => rows[j].timestamp <= rows[k].timestamp

\* C23: a read of the ledger by operation or by custody record returns the
\* matching entries oldest first.
C23_ReadsOldestFirst ==
    /\ \A id \in OpIds : Chronological(findByOperation(id))
    /\ \A rec \in Records : Chronological(findByCustodyRecord(rec))

\* the audit event that records the transition to a terminal status
TerminalEvent(status) ==
    CASE status = "EXECUTED" -> "OPERATION_EXECUTED"
      [] status = "FAILED" -> "OPERATION_FAILED"
      [] status = "REJECTED" -> "OPERATION_REJECTED"

\* a call or a poll of a monitor is at work on the operation
AtWork(id) ==
    \/ \E c \in Calls : calls[c].pc # "idle" /\ calls[c].op = id
    \/ \E m \in MonitorsOf(id) : mons[m].pc \notin {"timer", "stopped"}

\* C24: once no call and no poll is at work on an operation, each terminal
\* status goes with its audit entry: the operation is REJECTED, FAILED or
\* EXECUTED exactly when the ledger holds the entry of that transition.
C24_TerminalWithAudit ==
    \A i \in OpIds :
        ~AtWork(i)
          => \A status \in TerminalStatus :
                 ops[i].status = status <=> HasAudit(TerminalEvent(status), i)

\* the initiate call that is creating the operation, if it has not returned
Initiating(id) ==
    \E c \in Calls : calls[c].kind = "initiate" /\ calls[c].op = id

\* C25: once initiate has returned, the operation and its OPERATION_CREATED
\* entry are there together or not at all: every operation in the store has
\* its entry, every OPERATION_CREATED entry names an operation in the store,
\* and a failed initiate leaves no operation behind.
C25_CreatedWithAudit ==
    /\ \A i \in OpIds : ~Initiating(i) => HasAudit("OPERATION_CREATED", i)
    /\ \A k \in 1..Len(audit) :
           audit[k].eventType = "OPERATION_CREATED"
             => audit[k].operationId \in OpIds
    /\ (last.kind = "initiate" /\ last.result # "ok") => last.op \notin OpIds

\* C26: the ledger only grows at its end: across every step, the ledger
\* before the step is a prefix of the ledger after it, so no entry is ever
\* modified or deleted.
C26_AppendOnly ==
    [][/\ Len(audit) <= Len(audit')
       /\ SubSeq(audit', 1, Len(audit)) = audit]_vars

\* the ledger holds entries written by initiate, by approve, by
\* executeOperation and by the monitor of one operation
C26_Witness ==
    /\ Len(audit) >= 4
    /\ \E i \in OpIds :
          /\ HasAudit("OPERATION_CREATED", i)
          /\ HasAudit("OPERATION_EXECUTED", i)
          /\ HasAudit("OPERATION_FAILED", i)

\* the listing is ACTIVE and its expiry date is in the past
Overdue(listing) == listing.status = "ACTIVE" /\ listing.expiryDate < now

\* C27: a run of expireListings sets every listing that is ACTIVE with its
\* expiry date in the past to EXPIRED, changes no other listing (SOLD,
\* CANCELLED, EXPIRED or not yet expired) and nothing but listing statuses,
\* and a second run over its result would change nothing.
C27_ExpireListingsOnceIsEnough ==
    [][last'.kind = "expireListings"
         => /\ Len(listings') = Len(listings)
            /\ \A k \in 1..Len(listings) :
                  IF Overdue(listings[k])
                    THEN listings'[k]
                           = [listings[k] EXCEPT !.status = "EXPIRED"]
                    ELSE listings'[k] = listings[k]
            /\ expireListings(listings', now') = listings'
            /\ UNCHANGED <<bids, balances, ownership, audit, now>>]_vars

\* the job has just run and expired a listing, while a SOLD listing whose
\* expiry date is in the past has stayed SOLD
C27_Witness ==
    /\ last.kind = "expireListings"
    /\ \E k \in 1..Len(listings) : listings[k].status = "EXPIRED"
    /\ \E k \in 1..Len(listings) :
          listings[k].status = "SOLD" /\ listings[k].expiryDate < now

\* C28: a run of poll ends the monitoring of its operation without a
\* terminal answer of the provider only when the attempt budget is used up:
\* while it is not, a run whose provider call failed schedules the next run.
C28_FailedPollIsOneCycle ==
    [][\A m \in 1..Len(mons) :
          (mons[m].pc = "timer" /\ mons'[m].pc = "stopped")
            => mons[m].attempts >= maxAttempts]_vars

\* the provider status polls a monitor has made: one for every attempt it
\* has counted, and one more once a run of poll has ended the timer loop
PollsMade(m) ==
    mons[m].attempts + (IF mons[m].pc = "timer" THEN 0 ELSE 1)

\* C29: the monitor of an operation makes at most maxAttempts (30) provider
\* status polls.
C29_AtMostThirtyPolls ==
    \A m \in 1..Len(mons) : PollsMade(m) <= maxAttempts

\* C30: once a poll of a monitor has been answered with a terminal failure
\* of the provider, no step changes the custody record of the operation;
\* when the run of poll ends, the operation is FAILED with the reported
\* reason and the ledger holds its OPERATION_FAILED entry; and the monitor,
\* once stopped, does nothing more.
C30_ProviderFailureEndsFailed ==
    [][\A m \in 1..Len(mons) :
          mons'[m].status \in ProviderFailed
            => LET id == mons[m].op IN
               /\ custody'[ops[id].custodyRecordId]
                    = custody[ops[id].custodyRecordId]
               /\ mons'[m].pc = "stopped"
                    => /\ ops'[id].status = "FAILED"
                       /\ ops'[id].failureReason
                            = FailureMsg(mons'[m].status)
                       /\ (HasAudit("OPERATION_FAILED", id))'
               /\ mons[m].pc = "stopped" => mons'[m] = mons[m]]_vars

\* C31: the ON_CHAIN_SUBMISSION entry of a submitted operation is in the
\* ledger when approve returns the operation, and before the monitor of the
\* task has made a poll.
C31_SubmissionEntryAtSubmission ==
    /\ (last.kind = "approve" /\ last.result = "ok")
         => HasAudit("ON_CHAIN_SUBMISSION", last.op)
    /\ \A m \in 1..Len(mons) :
          (mons[m].taskId # NoTask /\ PollsMade(m) >= 1)
            => HasAudit("ON_CHAIN_SUBMISSION", mons[m].op)

\* the submission call of executeOperation has come back from the provider
Submitted(c) ==
    /\ calls[c].net # <<>>
    /\ calls[c].pc \in {"e_update", "x_audit"}

\* C32: the provider call of a submission ends as withRetry ends it: with
\* the result of the first request that goes through, or with the error of
\* the first request that fails with an error that is not transient or of
\* the third request, after as many requests as that takes.
C32_SubmissionIsRetried ==
    \A c \in Calls :
        Submitted(c)
          => /\ (calls[c].pc = "e_update")
                  <=> (withRetry(calls[c].net).result = "ok")
             /\ calls[c].tries = withRetry(calls[c].net).tries

\* a MINT operation on the record has been approved by a checker who is
\* not its maker
ApprovedMint(rec) ==
    \E i \in OpIds :
        /\ ops[i].custodyRecordId = rec
        /\ ops[i].operationType = "MINT"
        /\ ops[i].approvedBy # ""
        /\ ops[i].approvedBy # ops[i].initiatedBy

\* C33: a step that makes a custody record MINTED is taken only when a MINT
\* operation on the record has been approved by a checker other than its
\* maker, and a step that changes a custody record is a step of the monitor
\* of an operation on that record.
C33_MintedOnlyByApprovedMint ==
    [][\A r \in Records :
          custody'[r] # custody[r]
            => /\ custody'[r].status = "MINTED" => ApprovedMint(r)
               /\ \E m \in 1..Len(mons) :
                     /\ mons[m].op # NoOp
                     /\ ops[mons[m].op].custodyRecordId = r
                     /\ mons[m].pc = "c_write"
                     /\ mons'[m].pc = "c_audit"]_vars

\* C34: no step takes a bid out of PENDING while the listing of the bid is
\* not ACTIVE (the settlement of a sale starts from an ACTIVE listing).
C34_NoDecisionOnClosedListing ==
    [][\A b \in BidIds :
          (/\ bids[b].status = "PENDING"
           /\ listings[bids[b].listingId].status # "ACTIVE")
            => bids'[b].status = "PENDING"]_vars

\* C35: no step changes the status of a listing that is SOLD, CANCELLED or
\* EXPIRED.
C35_ClosedListingStaysClosed ==
    [][\A k \in 1..Len(listings) :
          listings[k].status # "ACTIVE"
            => listings'[k].status = listings[k].status]_vars

\* the provider has reported COMPLETED to monitor m of a MINT operation
\* that a checker other than its maker approved
MintCompleted(m) ==
    /\ m \in 1..Len(mons)
    /\ mons[m].op # NoOp
    /\ mons[m].type = "MINT"
    /\ mons[m].status = "COMPLETED"
    /\ ops[mons[m].op].approvedBy \notin {"", ops[mons[m].op].initiatedBy}

MintedWith(m, field) ==
    /\ m \in 1..Len(mons)
    /\ ops[mons[m].op].status = "EXECUTED"
    /\ custody[ops[mons[m].op].custodyRecordId].status = "MINTED"
    /\ custody[ops[mons[m].op].custodyRecordId][field]
         = ContractOf(mons[m].taskId)

\* C36: once the provider has reported COMPLETED for an approved MINT
\* operation, eventually the operation is EXECUTED and the custody record is
\* MINTED with the contract address of the task as its token address.
C36_CompletedMintEndsMinted ==
    \A m \in 1..MaxOps :
       [](MintCompleted(m) => <>MintedWith(m, "tokenAddress"))

\* C37: an operation whose monitor has been started has caused exactly one
\* submit call to the provider, and the monitor holds the task id of that
\* call, so that no poll is made with a missing task id.
C37_MonitorHasTaskHandle ==
    \A m \in 1..Len(mons) :
       mons[m].op # NoOp =>
          /\ Cardinality(TasksOf(mons[m].op)) = 1
          /\ mons[m].taskId \in TasksOf(mons[m].op)

\* C38: no step changes the status of a REJECTED operation or submits it to
\* the provider.
C38_RejectedIsFinal ==
    [][\A i \in OpIds :
          ops[i].status = "REJECTED"
            => /\ ops'[i].status = "REJECTED"
               /\ {t \in 1..Len(tasks') : tasks'[t] = i} = TasksOf(i)]_vars

\* the monitors of the operations on record r that are still waiting for a
\* terminal status of their task
Polling(r) ==
    {m \in 1..Len(mons) : /\ mons[m].op # NoOp
                          /\ ops[mons[m].op].custodyRecordId = r
                          /\ mons[m].pc = "timer"}

\* C39: no initiate call on a record gets past its check while the task of
\* an operation on the record is still being polled, and no record has two
\* tasks being polled.
C39_NoInitiateWhileInFlight ==
    [][/\ \A c \in Calls :
            (calls[c].pc # "i_create" /\ calls'[c].pc = "i_create")
              => Polling(calls'[c].rec) = {}
       /\ \A r \in Records : Cardinality(Polling(r)') <= 1]_vars

\* C40: while an operation is FAILED, no step of its monitor sets the
\* operation to EXECUTED or sets its custody record to MINTED or BURNED.
C40_FailedStaysFailed ==
    [][\A m \in 1..Len(mons) :
          (mons[m].op # NoOp /\ ops[mons[m].op].status = "FAILED")
            => LET rec == ops[mons[m].op].custodyRecordId IN
               /\ ops'[mons[m].op].status # "EXECUTED"
               /\ custody'[rec].status \in {"MINTED", "BURNED"}
                    => custody'[rec].status = custody[rec].status]_vars
====
